---- MODULE Spec2Model ----
(***************************************************************************)
(* Wild90: the scan pipeline of the CameraScanner component, the backend   *)
(* tables and functions it writes through (supabase_setup.sql), the        *)
(* community progress computation of CommunityChallenges, and the pure     *)
(* helpers (achievement diff, display percentage).                         *)
(*                                                                         *)
(* Scope: one mount of CameraScanner for the signed-in user `user`; other  *)
(* clients appear only through the rows they write (RemoteScan).           *)
(***************************************************************************)
EXTENDS Integers, Sequences, FiniteSets, TLC

\* ------------------------------------------------------------------ bounds
MaxInvocations == 2
MaxRemote == 3
MaxAcquire == 1
MaxCurrent == 35
MaxDeviceScans == 2
MaxStreams == 2
MaxReturning == 1
MaxRetryTimers == 1
MaxRows == 101

\* ------------------------------------------------------------ static data
Users == {"u1", "u2"}
user == "u1"

NoBug == "null"
NoBadge == "null"
NoError == "null"
NoProfile == [exists |-> FALSE]
NoProgress == [challengeId |-> "null"]
\* the session of the signed-in user; user is null after a sign-out
SignedIn == [user |-> user, ignored |-> FALSE]
SignedOut == [user |-> "null", ignored |-> FALSE]

Upper == <<"A","B","C","D","E","F","G","H","I","J","K","L","M",
           "N","O","P","Q","R","S","T","U","V","W","X","Y","Z">>
Lower == <<"a","b","c","d","e","f","g","h","i","j","k","l","m",
           "n","o","p","q","r","s","t","u","v","w","x","y","z">>

\* String.prototype.toLowerCase on a string held as a sequence of characters
toLowerCase(s) ==
  [k \in 1..Len(s) |->
     IF \E j \in 1..26 : Upper[j] = s[k]
       THEN Lower[CHOOSE j \in 1..26 : Upper[j] = s[k]]
       ELSE s[k]]

\* String.prototype.includes
includes(s, pat) ==
  \E k \in 1..(Len(s) - Len(pat) + 1) : SubSeq(s, k, k + Len(pat) - 1) = pat

butterfly == <<"b","u","t","t","e","r","f","l","y">>
bee == <<"b","e","e">>
honeybee == <<"h","o","n","e","y","b","e","e">>

\* Postgres ILIKE '%pat%': case-insensitive substring match
ilike(name, pat) == includes(toLowerCase(name), toLowerCase(pat))

RareOnly == {"rare"}
\* the rarity list of checkChallengeContribution
ContributionTiers == {"rare", "epic", "legendary"}
\* the rarity list of CameraScanner.loadChallengeProgress
ProgressTiers == {"rare", "epic", "legendary"}
\* the rarity list of CommunityChallenges.loadChallengeProgress
QuestsTiers == {"rare", "epic", "legendary"}

\* rows of the bugs table (the catalog); names as character sequences
Catalog ==
  { [id |-> "b1", name |-> <<"M","o","n","a","r","c","h"," ","B","u","t","t","e","r","f","l","y">>,
     rarity |-> "common", points |-> 10],
    [id |-> "b2", name |-> <<"H","o","n","e","y","b","e","e">>,
     rarity |-> "common", points |-> 15],
    [id |-> "b3", name |-> <<"L","a","d","y","b","u","g">>,
     rarity |-> "common", points |-> 10],
    [id |-> "b4", name |-> <<"P","r","a","y","i","n","g"," ","M","a","n","t","i","s">>,
     rarity |-> "rare", points |-> 50],
    [id |-> "b5", name |-> <<"A","t","l","a","s"," ","M","o","t","h">>,
     rarity |-> "epic", points |-> 50],
    [id |-> "b6", name |-> <<"G","o","l","i","a","t","h">>,
     rarity |-> "legendary", points |-> 50] }

\* the catalogs the model runs with: empty, the common bugs, the rarity tiers
Catalogs ==
  { {},
    {b \in Catalog : b.rarity = "common"},
    {b \in Catalog : b.rarity # "common"} }

BugIds == {b.id : b \in Catalog}
BugOf(id) == CHOOSE b \in Catalog : b.id = id

\* rows of the badges table
Badges ==
  { [id |-> "first_scan", requirement_type |-> "scan_count", requirement_value |-> 1],
    [id |-> "collector", requirement_type |-> "scan_count", requirement_value |-> 2],
    [id |-> "high_scorer", requirement_type |-> "score_threshold", requirement_value |-> 25],
    [id |-> "butterfly_lover", requirement_type |-> "bug_type", requirement_value |-> 5] }

BadgeIds == {b.id : b \in Badges}

CHALLENGES ==
  << [id |-> "butterfly-challenge", target |-> 30, bugType |-> butterfly],
     [id |-> "bee-challenge", target |-> 50, bugType |-> bee],
     [id |-> "rare-challenge", target |-> 20, bugType |-> <<"r","a","r","e">>] >>

ChallengeIds == {CHALLENGES[k].id : k \in 1..Len(CHALLENGES)}

\* ------------------------------------------------------------------ state
VARIABLES
  bugs,              \* backend: rows of the bugs table (static reference data)
  bug_scans,         \* backend: bag of bug_scans rows, [user_id, bug_id] -> count
  user_profiles,     \* backend: user id -> profile row, or NoProfile
  user_badges,       \* backend: set of rows [user_id, badge_id, earned_at]
  remote,            \* number of scans written by clients outside the component
  sessions,          \* the user's devices: each one's pending call, and the ledger
  auth,              \* useAuth(): the current user, and a scan click that found none
  stream,            \* CameraScanner: the stream state is non-null
  pendingAcquire,    \* CameraScanner: startCamera calls awaiting getUserMedia
  acquired,          \* number of startCamera calls so far
  video,             \* the media streams, the <video> element and its timers
  isScanning, loading, flash, error,
  scannedBug, capturedImage, challengeProgress, earnedBadge,
  started,           \* number of scanBug invocations started on this mount
  inv,               \* per invocation: position, locals, and what it has written
  quests,            \* CommunityChallenges: position and state of the component
  calc               \* evaluation of a pure helper: inputs and result

vars == << bugs, bug_scans, user_profiles, user_badges, remote, sessions, auth,
           stream, pendingAcquire, acquired, video,
           isScanning, loading, flash, error, scannedBug, capturedImage,
           challengeProgress, earnedBadge, started, inv, quests, calc >>

backend == << bugs, bug_scans, user_profiles, user_badges, remote, sessions, auth >>
camera == << stream, pendingAcquire, acquired, video >>
scanner == << isScanning, loading, flash, error, scannedBug, capturedImage,
              challengeProgress, earnedBadge, started, inv >>


\* -------------------------------------------------------------- backend
\* the sum of f over S
SumOver(S, f) ==
  LET sum[T \in SUBSET S] ==
        IF T = {} THEN 0
        ELSE LET x == CHOOSE y \in T : TRUE IN f[x] + sum[T \ {x}]
  IN sum[S]

\* number of rows of a bug_scans bag
RowCount(bs) == SumOver(DOMAIN bs, bs)

\* number of rows owned by one user
RowsOf(bs, uid) == SumOver({k \in DOMAIN bs : k[1] = uid}, bs)

\* a lookup that finds no grant
HeldBadgesNone(ubadges, uid) == {}

HeldBadges(ubadges, uid) == {r.badge_id : r \in {x \in ubadges : x.user_id = uid}}

\* check_and_award_badges(p_user_id): reads the profile (creating it with zeros
\* when absent), then inserts the scan_count and the score_threshold badges whose
\* value is <= the profile's counters and that the user does not hold yet.
\* `now` is NOW() of the calling transaction.
check_and_award_badges(profiles, ubadges, p_user_id, now) ==
  LET absent == profiles[p_user_id] = NoProfile
      profiles1 == IF absent
                     THEN [profiles EXCEPT ![p_user_id] =
                             [exists |-> TRUE, total_score |-> 0, bugs_scanned |-> 0]]
                     ELSE profiles
      v_scan_count == IF absent THEN 0 ELSE profiles[p_user_id].bugs_scanned
      v_total_score == IF absent THEN 0 ELSE profiles[p_user_id].total_score
      byCount == {b.id : b \in {x \in Badges :
                     /\ x.requirement_type = "scan_count"
                     /\ x.requirement_value <= v_scan_count
                     /\ x.id \notin HeldBadges(ubadges, p_user_id)}}
      ubadges1 == ubadges \cup
                  {[user_id |-> p_user_id, badge_id |-> id, earned_at |-> now] : id \in byCount}
      byScore == {b.id : b \in {x \in Badges :
                     /\ x.requirement_type = "score_threshold"
                     /\ x.requirement_value <= v_total_score
                     /\ x.id \notin HeldBadges(ubadges1, p_user_id)}}
      ubadges2 == ubadges1 \cup
                  {[user_id |-> p_user_id, badge_id |-> id, earned_at |-> now] : id \in byScore}
  IN [user_profiles |-> profiles1, user_badges |-> ubadges2]

\* an insert whose trigger replaces the user's grants by the newly awarded ones
bug_scans_insert_replacing(bs, profiles, ubadges, uid, bug_id) ==
  LET bs1 == [bs EXCEPT ![<<uid, bug_id>>] = @ + 1]
      t == check_and_award_badges(profiles, ubadges, uid, RowCount(bs1))
  IN [bug_scans |-> bs1, user_profiles |-> t.user_profiles,
      user_badges |-> {r \in t.user_badges : r.user_id # uid \/ r \notin ubadges}]

\* INSERT INTO bug_scans (user_id, bug_id, image_url) with the AFTER INSERT
\* trigger check_badges_after_scan -> trigger_check_badges -> check_and_award_badges
bug_scans_insert(bs, profiles, ubadges, uid, bug_id) ==
  LET bs1 == [bs EXCEPT ![<<uid, bug_id>>] = @ + 1]
      t == check_and_award_badges(profiles, ubadges, uid, RowCount(bs1))
  IN [bug_scans |-> bs1, user_profiles |-> t.user_profiles, user_badges |-> t.user_badges]

\* a rejected insert whose row and trigger effects stay
bug_scans_insert_partial(bs, profiles, ubadges, uid, bug_id) ==
  bug_scans_insert(bs, profiles, ubadges, uid, bug_id)

\* the same statement when the insert is rejected: nothing is written
bug_scans_insert_failed(bs, profiles, ubadges, uid, bug_id) ==
  [bug_scans |-> bs, user_profiles |-> profiles, user_badges |-> ubadges]

\* an upsert with ON CONFLICT (id) DO NOTHING
increment_user_score_no_update(profiles, uid, points) ==
  IF profiles[uid] = NoProfile
    THEN [profiles EXCEPT ![uid] =
            [exists |-> TRUE, total_score |-> points, bugs_scanned |-> 1]]
    ELSE profiles

\* increment_user_score(user_id, points): INSERT ... ON CONFLICT (id) DO UPDATE
increment_user_score(profiles, uid, points) ==
  IF profiles[uid] = NoProfile
    THEN [profiles EXCEPT ![uid] =
            [exists |-> TRUE, total_score |-> points, bugs_scanned |-> 1]]
    ELSE [profiles EXCEPT ![uid] =
            [exists |-> TRUE,
             total_score |-> @.total_score + points,
             bugs_scanned |-> @.bugs_scanned + 1]]

Score(profiles, uid) == IF profiles[uid] = NoProfile THEN 0 ELSE profiles[uid].total_score
Count(profiles, uid) == IF profiles[uid] = NoProfile THEN 0 ELSE profiles[uid].bugs_scanned

\* SELECT on bug_scans under the policy "Users can view own scans"
\* (USING auth.uid() = user_id), filtered by .in('bug_id', ids): the visible
\* sub-bag, as the set of [user_id, bug_id, n] with n > 0 rows
bug_scans_select(bs, viewer, ids) ==
  { [user_id |-> k[1], bug_id |-> k[2], n |-> bs[k]] :
      k \in {x \in DOMAIN bs : x[1] = viewer /\ x[2] \in ids /\ bs[x] > 0} }

\* new Set(scans.map(scan => scan.bug_id)).size
distinctBugs(scans) == Cardinality({r.bug_id : r \in scans})

\* SELECT id FROM bugs WHERE rarity IN (tiers)
rareBugIds(catalog, tiers) == {b.id : b \in {x \in catalog : x.rarity \in tiers}}

\* SELECT id, name FROM bugs WHERE name ILIKE '%<bugType>%'
bugIdsOfType(catalog, bugType) == {b.id : b \in {x \in catalog : ilike(x.name, bugType)}}


\* ------------------------------------------------------- CameraScanner
BlankInv ==
  [pc |-> "none", bug |-> NoBug, before |-> {}, flashT |-> FALSE,
   \* the grants the user held when the badgesBefore read was answered
   heldBefore |-> {},
   progPc |-> "none", badgePc |-> "none", newBadge |-> NoBadge,
   \* what the invocation has done so far
   outcome |-> "none", msg |-> NoError, inserts |-> 0, scoreDelta |-> 0,
   countDelta |-> 0, grants |-> {}, issued |-> {},
   \* a click on the disabled scan button arrived while this one is in flight
   rejected |-> FALSE]

\* the record of an invocation that has ended with all its timers and reads,
\* once a later invocation starts
RetiredInv == [BlankInv EXCEPT !.pc = "done", !.outcome = "retired"]

Finished(r) ==
  /\ r.pc = "done"
  /\ ~r.flashT
  /\ r.progPc \in {"none", "done", "defaulted"}
  /\ r.badgePc \in {"none", "done", "failed"}

\* bookkeeping: a later invocation starting closes the account of the ended ones
\* (their pending timers and reads stay), and an ended, closed record is blank
Settle(f) ==
  [j \in DOMAIN f |->
     IF f[j].outcome = "retired" /\ Finished(f[j]) THEN RetiredInv ELSE f[j]]

Retire(f) ==
  Settle([j \in DOMAIN f |->
            IF f[j].pc = "done"
              THEN [f[j] EXCEPT !.outcome = "retired", !.msg = NoError, !.inserts = 0,
                                !.scoreDelta = 0, !.countDelta = 0, !.grants = {},
                                !.issued = {},
                                !.rejected = FALSE]
              ELSE f[j]])

Invocations == 1..MaxInvocations

\* the invocation has not returned from scanBug yet
InFlight(i) == inv[i].pc \notin {"none", "done"}

\* a scan button that stays rendered under the result
ScanButtonRendered_underResult == stream

\* the scan button is rendered ({stream ? ...} and {!scannedBug && ...})
ScanButtonRendered == stream /\ scannedBug = NoBug

\* a scan button without the disabled attribute
ScanButtonAlwaysEnabled == ScanButtonRendered

\* ... and not disabled: disabled={loading || isScanning}
ScanButtonEnabled == ScanButtonRendered /\ ~(loading \/ isScanning)

\* capturePhoto: returns undefined when the video or canvas ref is null; both
\* elements are rendered exactly when stream is set
capturePhoto == IF stream THEN "data:image/jpeg" ELSE "undefined"

MsgCapture == "Failed to capture image"
MsgNoBug == "No bug detected. Try scanning a different angle."
MsgScanError == "scanError.message"

\* a checkChallengeContribution that tests the rarity first
checkChallengeContribution_rarityFirst(bug) ==
  LET bugNameLower == toLowerCase(bug.name) IN
  IF bug.rarity \in ContributionTiers THEN "rare-challenge"
  ELSE IF includes(bugNameLower, butterfly) THEN "butterfly-challenge"
  ELSE IF includes(bugNameLower, bee) \/ includes(bugNameLower, honeybee)
    THEN "bee-challenge"
  ELSE "null"

\* checkChallengeContribution: the challenge a scanned bug contributes to
checkChallengeContribution(bug) ==
  LET bugNameLower == toLowerCase(bug.name) IN
  IF includes(bugNameLower, butterfly) THEN "butterfly-challenge"
  ELSE IF includes(bugNameLower, bee) \/ includes(bugNameLower, honeybee)
    THEN "bee-challenge"
  ELSE IF bug.rarity \in ContributionTiers THEN "rare-challenge"
  ELSE "null"

\* loadChallengeProgress: the entity ids the challenge resolves to
challengeBugIds(catalog, challengeId) ==
  IF challengeId = "rare-challenge"
    THEN rareBugIds(catalog, ProgressTiers)
    ELSE bugIdsOfType(catalog,
           IF challengeId = "butterfly-challenge" THEN butterfly ELSE bee)

\* loadChallengeProgress: targets match CommunityChallenges component
challengeTarget(challengeId) ==
  IF challengeId = "butterfly-challenge" THEN 30
  ELSE IF challengeId = "bee-challenge" THEN 50 ELSE 20

\* scanBug past its user check, from the click to the first await (inside detectBug)
scanBug_start ==
  /\ started < MaxInvocations
  /\ started' = started + 1
  /\ LET i == started + 1
         imageData == capturePhoto
     IN IF imageData = "undefined"
          THEN \* throw new Error('Failed to capture image') -> catch -> finally
               /\ error' = MsgCapture
               /\ flash' = TRUE
               /\ isScanning' = FALSE
               /\ loading' = FALSE
               /\ capturedImage' = capturedImage
               /\ inv' = [Retire(inv) EXCEPT ![i] =
                           [@ EXCEPT !.pc = "done", !.flashT = TRUE,
                                     !.outcome = "error", !.msg = error']]
          ELSE /\ error' = NoError
               /\ flash' = TRUE
               /\ isScanning' = TRUE
               /\ loading' = TRUE
               /\ capturedImage' = imageData
               /\ inv' = [Retire(inv) EXCEPT ![i] =
                           [@ EXCEPT !.pc = "detectBug", !.flashT = TRUE]]
  /\ UNCHANGED << backend, camera, scannedBug, challengeProgress, earnedBadge, quests, calc >>

\* a scanBug without the user check
scanBug_ignoringUser ==
  /\ ScanButtonEnabled
  /\ scanBug_start

\* scanBug: if (!user) return; else the pipeline starts
scanBug ==
  /\ ScanButtonEnabled
  /\ IF auth.user = "null"
       THEN /\ ~auth.ignored
            /\ auth' = [auth EXCEPT !.ignored = TRUE]
            /\ UNCHANGED << bugs, bug_scans, user_profiles, user_badges, remote, sessions,
                            camera, scanner, quests, calc >>
       ELSE scanBug_start

\* a click on the scan button while it is disabled: no handler runs
scanBugRejected ==
  /\ ScanButtonRendered
  /\ ~ScanButtonEnabled
  /\ \E i \in Invocations : InFlight(i) /\ ~inv[i].rejected
  /\ inv' = [i \in Invocations |->
               IF InFlight(i) THEN [inv[i] EXCEPT !.rejected = TRUE] ELSE inv[i]]
  /\ UNCHANGED << backend, camera, isScanning, loading, flash, error, scannedBug,
                  capturedImage, challengeProgress, earnedBadge, started, quests, calc >>

\* setTimeout(() => setFlash(false), 200)
flashOff(i) ==
  /\ inv[i].flashT
  /\ flash' = FALSE
  /\ inv' = Settle([inv EXCEPT ![i] = [@ EXCEPT !.flashT = FALSE]])
  /\ UNCHANGED << backend, camera, isScanning, loading, error, scannedBug,
                  capturedImage, challengeProgress, earnedBadge, started, quests, calc >>

\* .limit(100)
BugsPageLimit == 100

\* the results a select with .limit(n) and no ORDER BY can return: the table
\* when it has at most n rows, else any n of its rows
RECURSIVE limit(_, _)
limit(rows, n) ==
  IF Cardinality(rows) <= n THEN {rows}
  ELSE UNION {limit(rows \ {x}, n) : x \in rows}

\* a detectBug whose index can be bugs.length (Math.round for Math.floor)
detectBugReturn_rounding(ok, page) ==
  IF ~ok \/ page = {} THEN {{}} ELSE {{}} \cup {{x} : x \in page}

\* what detectBug returns for a read result, as the empty set for null and a
\* singleton for a row: null when the read failed (or threw) or returned no
\* rows, else bugs[Math.floor(Math.random() * bugs.length)]
detectBugReturn(ok, page) ==
  IF ~ok \/ page = {} THEN {{}} ELSE {{x} : x \in page}

\* detectBug on a catalog, as the id of the returned row
detectBugResults(catalog) ==
  { IF r = {} THEN NoBug ELSE (CHOOSE x \in r : TRUE).id :
      r \in UNION { detectBugReturn(ok, page) :
                      ok \in BOOLEAN, page \in limit(catalog, BugsPageLimit) } }

\* a no-match branch that surfaces nothing
scanBug_noMatch_silent(i) ==
  /\ isScanning' = FALSE
  /\ loading' = FALSE
  /\ inv' = [inv EXCEPT ![i] = [@ EXCEPT !.pc = "done", !.outcome = "nomatch",
                                         !.rejected = FALSE]]
  /\ UNCHANGED << backend, camera, flash, error, scannedBug, capturedImage,
                  challengeProgress, earnedBadge, started, quests, calc >>

\* scanBug after detectBug returned null: else { setError(...) } finally {...}
scanBug_noMatch(i) ==
  /\ error' = MsgNoBug
  /\ isScanning' = FALSE
  /\ loading' = FALSE
  /\ inv' = [inv EXCEPT ![i] =
              [@ EXCEPT !.pc = "done", !.outcome = "nomatch", !.msg = error',
                        !.rejected = FALSE]]
  /\ UNCHANGED << backend, camera, flash, scannedBug, capturedImage,
                  challengeProgress, earnedBadge, started, quests, calc >>

\* a scanBug that issues the score increment as soon as the bug is known
scanBug_detected_scoringFirst(i, b) ==
  /\ inv' = [inv EXCEPT ![i] =
              [@ EXCEPT !.pc = "rpc", !.bug = b,
                        !.issued = @ \cup {"increment_user_score"}]]
  /\ UNCHANGED << backend, camera, isScanning, loading, flash, error, scannedBug,
                  capturedImage, challengeProgress, earnedBadge, started, quests, calc >>

\* scanBug after detectBug returned a bug: the insert is issued
scanBug_detected(i, b) ==
  /\ inv' = [inv EXCEPT ![i] =
              [@ EXCEPT !.pc = "insert", !.bug = b, !.issued = @ \cup {"insert"}]]
  /\ UNCHANGED << backend, camera, isScanning, loading, flash, error, scannedBug,
                  capturedImage, challengeProgress, earnedBadge, started, quests, calc >>

\* detectBug resolves (its 1500 ms timer fires after the 200 ms flash timer)
detectBug(i) ==
  /\ inv[i].pc = "detectBug"
  /\ ~inv[i].flashT
  /\ \E b \in detectBugResults(bugs) :
       IF b = NoBug THEN scanBug_noMatch(i) ELSE scanBug_detected(i, b)


\* what the invocation's insert added to the backend
insertEffects(i, r) ==
  [inv EXCEPT ![i] =
     [@ EXCEPT !.inserts = @ + RowsOf(r.bug_scans, user) - RowsOf(bug_scans, user),
               !.grants = @ \cup (r.user_badges \ user_badges)]]

\* the bug_scans insert succeeded; the badgesBefore select is issued
scanBug_inserted(i) ==
  LET r == bug_scans_insert(bug_scans, user_profiles, user_badges, user, inv[i].bug) IN
  /\ bug_scans' = r.bug_scans
  /\ user_profiles' = r.user_profiles
  /\ user_badges' = r.user_badges
  /\ inv' = [insertEffects(i, r) EXCEPT ![i].pc = "badgesBefore",
                                        ![i].issued = @ \cup {"badgesBefore"}]
  /\ UNCHANGED << bugs, remote, sessions, auth, camera, isScanning, loading, flash, error, scannedBug,
                  capturedImage, challengeProgress, earnedBadge, started, quests, calc >>

\* a failed insert after which the achievement check is still scheduled
scanBug_insertFailed_checking(i) ==
  LET r == bug_scans_insert_failed(bug_scans, user_profiles, user_badges, user, inv[i].bug) IN
  /\ bug_scans' = r.bug_scans
  /\ user_profiles' = r.user_profiles
  /\ user_badges' = r.user_badges
  /\ error' = MsgScanError
  /\ isScanning' = FALSE
  /\ loading' = FALSE
  /\ inv' = [insertEffects(i, r) EXCEPT ![i].pc = "done", ![i].outcome = "error",
                                        ![i].msg = error', ![i].rejected = FALSE,
                                        ![i].badgePc = "timer500"]
  /\ UNCHANGED << bugs, remote, sessions, auth, camera, flash, scannedBug, capturedImage,
                  challengeProgress, earnedBadge, started, quests, calc >>

\* a failed insert whose error leaves scanBug without the finally block
scanBug_insertFailed_noFinally(i) ==
  LET r == bug_scans_insert_failed(bug_scans, user_profiles, user_badges, user, inv[i].bug) IN
  /\ bug_scans' = r.bug_scans
  /\ user_profiles' = r.user_profiles
  /\ user_badges' = r.user_badges
  /\ error' = MsgScanError
  /\ inv' = [insertEffects(i, r) EXCEPT ![i].pc = "done", ![i].outcome = "error",
                                        ![i].msg = error', ![i].rejected = FALSE]
  /\ UNCHANGED << bugs, remote, sessions, auth, camera, isScanning, loading, flash,
                  scannedBug, capturedImage, challengeProgress, earnedBadge, started,
                  quests, calc >>

\* if (scanError) throw scanError -> catch: setError(err.message) -> finally
scanBug_insertFailed(i) ==
  LET r == bug_scans_insert_failed(bug_scans, user_profiles, user_badges, user, inv[i].bug) IN
  /\ bug_scans' = r.bug_scans
  /\ user_profiles' = r.user_profiles
  /\ user_badges' = r.user_badges
  /\ error' = MsgScanError
  /\ isScanning' = FALSE
  /\ loading' = FALSE
  /\ inv' = [insertEffects(i, r) EXCEPT ![i].pc = "done", ![i].outcome = "error",
                                        ![i].msg = error', ![i].rejected = FALSE]
  /\ UNCHANGED << bugs, remote, sessions, auth, camera, flash, scannedBug, capturedImage,
                  challengeProgress, earnedBadge, started, quests, calc >>

\* await supabase.from('bug_scans').insert(...)
insertScan(i) ==
  /\ inv[i].pc = "insert"
  /\ \/ scanBug_inserted(i)
     \/ scanBug_insertFailed(i)

\* const { data: badgesBefore } = await ...select('badge_id').eq('user_id', user.id);
\* badgeIdsBefore = new Set((badgesBefore || []).map(b => b.badge_id)); the rpc is issued
readBadgesBefore(i) ==
  /\ inv[i].pc = "badgesBefore"
  /\ \E ok \in BOOLEAN :
       inv' = [inv EXCEPT ![i] =
                 [@ EXCEPT !.pc = "rpc", !.issued = @ \cup {"increment_user_score"},
                           !.heldBefore = HeldBadges(user_badges, user),
                           !.before = IF ok THEN HeldBadges(user_badges, user) ELSE {}]]
  /\ UNCHANGED << backend, camera, isScanning, loading, flash, error, scannedBug,
                  capturedImage, challengeProgress, earnedBadge, started, quests, calc >>

\* await supabase.rpc('increment_user_score', ...) returned (its error, if any, is
\* not read); setScannedBug; checkChallengeContribution runs to its first await;
\* setTimeout(checkBadges, 500); finally
scanBug_scored(i, ok) ==
  LET bug == BugOf(inv[i].bug)
      profiles1 == IF ok THEN increment_user_score(user_profiles, user, bug.points)
                   ELSE user_profiles
      challengeId == checkChallengeContribution(bug)
  IN
  /\ user_profiles' = profiles1
  /\ scannedBug' = bug.id
  /\ isScanning' = FALSE
  /\ loading' = FALSE
  /\ inv' = [inv EXCEPT ![i] =
              [@ EXCEPT !.pc = "done", !.outcome = "success", !.rejected = FALSE,
                        !.scoreDelta = @ + Score(profiles1, user) - Score(user_profiles, user),
                        !.countDelta = @ + Count(profiles1, user) - Count(user_profiles, user),
                        !.progPc = IF challengeId = "null" THEN "none" ELSE "bugs",
                        !.badgePc = "timer500"]]
  /\ UNCHANGED << bugs, bug_scans, user_badges, remote, sessions, auth, camera, flash, error,
                  capturedImage, challengeProgress, earnedBadge, started, quests, calc >>

incrementScore(i) ==
  /\ inv[i].pc = "rpc"
  /\ \E ok \in BOOLEAN : scanBug_scored(i, ok)

\* loadChallengeProgress: the bugs select returned
loadChallengeProgress_bugs(i) ==
  /\ inv[i].progPc = "bugs"
  /\ LET challengeId == checkChallengeContribution(BugOf(inv[i].bug))
         ids == challengeBugIds(bugs, challengeId)
     IN \E ok \in BOOLEAN :
          IF ok /\ ids # {}
            THEN /\ inv' = [inv EXCEPT ![i].progPc = "scans"]
                 /\ UNCHANGED challengeProgress
            ELSE /\ inv' = Settle([inv EXCEPT ![i].progPc = "defaulted"])
                 /\ challengeProgress' =
                      [challengeId |-> challengeId, current |-> 0,
                       target |-> challengeTarget(challengeId),
                       \* the invocation that computed it
                       by |-> i]
  /\ UNCHANGED << backend, camera, isScanning, loading, flash, error, scannedBug,
                  capturedImage, earnedBadge, started, quests, calc >>

\* loadChallengeProgress: the bug_scans select returned rows; setChallengeProgress
loadChallengeProgress_counted(i) ==
  LET challengeId == checkChallengeContribution(BugOf(inv[i].bug))
      scans == bug_scans_select(bug_scans, user, challengeBugIds(bugs, challengeId))
  IN
  /\ inv[i].progPc = "scans"
  /\ inv' = Settle([inv EXCEPT ![i].progPc = "done"])
  /\ challengeProgress' =
       [challengeId |-> challengeId, current |-> distinctBugs(scans),
        target |-> challengeTarget(challengeId), by |-> i]
  /\ UNCHANGED << backend, camera, isScanning, loading, flash, error, scannedBug,
                  capturedImage, earnedBadge, started, quests, calc >>

\* loadChallengeProgress: the bug_scans select failed; current stays 0
loadChallengeProgress_scansFailed(i) ==
  LET challengeId == checkChallengeContribution(BugOf(inv[i].bug)) IN
  /\ inv[i].progPc = "scans"
  /\ inv' = Settle([inv EXCEPT ![i].progPc = "defaulted"])
  /\ challengeProgress' =
       [challengeId |-> challengeId, current |-> 0,
        target |-> challengeTarget(challengeId), by |-> i]
  /\ UNCHANGED << backend, camera, isScanning, loading, flash, error, scannedBug,
                  capturedImage, earnedBadge, started, quests, calc >>

loadChallengeProgress_scans(i) ==
  \/ loadChallengeProgress_counted(i)
  \/ loadChallengeProgress_scansFailed(i)

\* all orders of a set of rows with earned_at descending (equal timestamps in
\* either order)
RECURSIVE OrderDesc(_)
OrderDesc(rows) ==
  IF rows = {} THEN {<< >>}
  ELSE UNION { {<<r>> \o rest : rest \in OrderDesc(rows \ {r})} :
                 r \in {x \in rows : \A y \in rows : y.earned_at <= x.earned_at} }

\* select('*, badge:badges(*)').eq('user_id', userId).order('earned_at', desc)
\* under the policy "Users can view own badges"
user_badges_select(ubadges, uid) ==
  OrderDesc({ [badge_id |-> r.badge_id, earned_at |-> r.earned_at,
               badge |-> CHOOSE b \in Badges : b.id = r.badge_id] :
              r \in {x \in ubadges : x.user_id = uid} })

RECURSIVE FilterNew(_, _)
FilterNew(rows, badgeIdsBefore) ==
  IF rows = << >> THEN << >>
  ELSE LET ub == Head(rows)
           \* ub.badge is the joined badges row; a missing row joins as null
           keep == ub.badge_id \notin badgeIdsBefore /\ ub.badge.id # NoBadge
       IN (IF keep THEN <<ub>> ELSE << >>) \o FilterNew(Tail(rows), badgeIdsBefore)

\* a diff that keeps only the first new row
newBadgesFirstOnly(userBadges, badgeIdsBefore) ==
  LET all == FilterNew(userBadges, badgeIdsBefore) IN
  IF all = << >> THEN << >> ELSE <<Head(all)>>

\* checkBadges: userBadges.filter(ub => !badgeIdsBefore.has(ub.badge_id) && ub.badge)
newBadges(userBadges, badgeIdsBefore) ==
  IF Len(userBadges) > 0 THEN FilterNew(userBadges, badgeIdsBefore) ELSE << >>

\* a checkBadges that puts its read error on the error banner
checkBadges_surfacing(i) ==
  /\ inv[i].badgePc = "timer500"
  /\ inv' = Settle([inv EXCEPT ![i] = [@ EXCEPT !.badgePc = "failed", !.before = {}, !.heldBefore = {}]])
  /\ error' = "Error fetching badges"
  /\ UNCHANGED << backend, camera, isScanning, loading, flash, scannedBug,
                  capturedImage, challengeProgress, earnedBadge, started, quests, calc >>

\* checkBadges, 500 ms after the result: read the grants, diff, schedule the reveal
checkBadges(i) ==
  /\ inv[i].badgePc = "timer500"
  /\ \/ \* fetchError: return
        inv' = Settle([inv EXCEPT ![i] = [@ EXCEPT !.badgePc = "failed", !.before = {}, !.heldBefore = {}]])
     \/ \E userBadges \in user_badges_select(user_badges, user) :
          LET new == newBadges(userBadges, inv[i].before) IN
          IF Len(new) > 0
            THEN inv' = [inv EXCEPT ![i] =
                           [@ EXCEPT !.badgePc = "timer2000", !.before = {}, !.heldBefore = {},
                                     !.newBadge = new[1].badge.id]]
            ELSE inv' = Settle([inv EXCEPT ![i] = [@ EXCEPT !.badgePc = "done", !.before = {}, !.heldBefore = {}]])
  /\ UNCHANGED << backend, camera, isScanning, loading, flash, error, scannedBug,
                  capturedImage, challengeProgress, earnedBadge, started, quests, calc >>

\* setTimeout(() => setEarnedBadge(latestBadge), 2000)
showBadge(i) ==
  /\ inv[i].badgePc = "timer2000"
  /\ earnedBadge' = inv[i].newBadge
  /\ inv' = Settle([inv EXCEPT ![i].badgePc = "done"])
  /\ UNCHANGED << backend, camera, isScanning, loading, flash, error, scannedBug,
                  capturedImage, challengeProgress, started, quests, calc >>

\* BadgeNotification onClose
onClose ==
  /\ earnedBadge # NoBadge
  /\ earnedBadge' = NoBadge
  /\ UNCHANGED << backend, camera, isScanning, loading, flash, error, scannedBug,
                  capturedImage, challengeProgress, started, inv, quests, calc >>

\* handleNewScan ("Scan Another Bug"), the state it resets
handleNewScan ==
  /\ scannedBug # NoBug
  /\ scannedBug' = NoBug
  /\ error' = NoError
  /\ capturedImage' = "null"
  /\ challengeProgress' = NoProgress
  /\ UNCHANGED << backend, stream, pendingAcquire, acquired, isScanning, loading, flash,
                  earnedBadge, started, inv, quests, calc >>

CameraErrors ==
  { "Camera permission denied. Please allow camera access.",
    "No camera found on this device.",
    "Unable to access camera. Please check permissions." }

\* startCamera, up to its first await (the Start button shows while !stream)
startCamera ==
  /\ ~stream
  /\ acquired' = acquired + 1
  /\ pendingAcquire' = pendingAcquire + 1
  /\ UNCHANGED << backend, stream, scanner, quests, calc >>

\* startCamera after getUserMedia settled (rear camera, else any camera)
startCamera_settled ==
  /\ pendingAcquire > 0
  /\ pendingAcquire' = pendingAcquire - 1
  /\ \/ /\ stream' = TRUE
        /\ error' = NoError
     \/ /\ \E m \in CameraErrors : error' = m
        /\ UNCHANGED stream
  /\ UNCHANGED << backend, acquired, isScanning, loading, flash, scannedBug, capturedImage,
                  challengeProgress, earnedBadge, started, inv, quests, calc >>

stopCamera ==
  /\ stream
  /\ stream' = FALSE
  /\ UNCHANGED << backend, pendingAcquire, acquired, scanner, quests, calc >>

\* ------------------------------------------ the camera and the <video>
\* streams are numbered in the order getUserMedia returns them; 0 is null
NoVideo ==
  [mounted |-> TRUE,      \* the CameraScanner route is shown
   created |-> 0,         \* MediaStreams returned by getUserMedia so far
   live |-> {},           \* the streams whose tracks have not been stopped
   held |-> 0,            \* the MediaStream in the stream state
   srcObject |-> 0,       \* videoRef.current.srcObject
   paused |-> TRUE,       \* videoRef.current.paused
   fallback |-> 0,        \* pending startCamera calls that are at the second getUserMedia
   orphans |-> 0,         \* pending startCamera calls of an unmounted component
   attachPlay |-> FALSE,  \* the play() promise of the attachment effect is pending
   playTimer |-> FALSE,   \* setTimeout(playVideo, 150) is pending
   newScan |-> [pending |-> FALSE, stream |-> 0],  \* handleNewScan at its 100 ms await
   \* the pending retry timers: of playVideo (300 ms), of handleNewScan (200 ms)
   retry |-> [effect |-> 0, newScan |-> 0],
   lastRetry |-> [path |-> "none", played |-> FALSE],  \* the last retry that fired
   resumed |-> FALSE,     \* playVideo or handleNewScan restarted a paused video
   lastAcquire |-> [env |-> "none", any |-> "none"]]  \* attempts of the last settled call

MsgPlayback == "Failed to start video playback"

\* startCamera: if (stream) stream.getTracks().forEach(track => track.stop())
startCamera_video ==
  /\ video.mounted
  /\ video' = [video EXCEPT !.live = IF stream THEN @ \ {video.held} ELSE @]

\* a first attempt that fails puts its error on the banner, without a fallback
startCamera_envFailed_surfacing ==
  /\ video.fallback < pendingAcquire
  /\ pendingAcquire' = pendingAcquire - 1
  /\ \E m \in CameraErrors : error' = m
  /\ video' = [video EXCEPT !.lastAcquire = [env |-> "failed", any |-> "none"]]
  /\ UNCHANGED << backend, stream, acquired, isScanning, loading, flash, scannedBug,
                  capturedImage, challengeProgress, earnedBadge, started, inv, quests, calc >>

\* startCamera: getUserMedia({facingMode: 'environment'}) rejected; catch (envError):
\* the second getUserMedia is issued
startCamera_envFailed ==
  /\ video.fallback < pendingAcquire
  /\ video' = [video EXCEPT !.fallback = @ + 1]
  /\ UNCHANGED << backend, stream, pendingAcquire, acquired, scanner, quests, calc >>

\* startCamera after the getUserMedia that settles the call: on success the new
\* stream is put in the state, the attachment effect sets srcObject (which
\* reloads the element) and calls play(), the keep-playing effect restarts its
\* timer; on failure of the second attempt nothing is acquired
startCamera_settled_video ==
  \/ /\ error' = NoError
     /\ \E viaFallback \in BOOLEAN :
          /\ IF viaFallback THEN video.fallback > 0
                            ELSE pendingAcquire - video.fallback > 0
          /\ LET id == video.created + 1 IN
             video' = [video EXCEPT
                         !.created = id,
                         !.live = @ \cup {id},
                         !.held = id,
                         !.srcObject = id,
                         !.paused = TRUE,
                         !.attachPlay = TRUE,
                         !.playTimer = (scannedBug = NoBug),
                         !.fallback = IF viaFallback THEN @ - 1 ELSE @,
                         !.lastAcquire =
                            [env |-> IF viaFallback THEN "failed" ELSE "ok",
                             any |-> IF viaFallback THEN "ok" ELSE "none"]]
  \/ /\ error' # NoError
     /\ video.fallback > 0
     /\ video' = [video EXCEPT !.fallback = @ - 1,
                               !.lastAcquire = [env |-> "failed", any |-> "failed"]]

\* videoRef.current.play() of the attachment effect settles
attachPlay_settled ==
  /\ video.attachPlay
  /\ \/ /\ video.srcObject # 0
        /\ video' = [video EXCEPT !.attachPlay = FALSE, !.paused = FALSE]
        /\ UNCHANGED error
     \/ /\ video' = [video EXCEPT !.attachPlay = FALSE]
        /\ error' = MsgPlayback
  /\ UNCHANGED << backend, stream, pendingAcquire, acquired, isScanning, loading, flash,
                  scannedBug, capturedImage, challengeProgress, earnedBadge, started,
                  inv, quests, calc >>

\* stopCamera as a function of the stream state and the element: if (stream)
\* the tracks of the held stream are stopped and setStream(null); if
\* (videoRef.current) srcObject = null and pause(). The <video> is rendered
\* exactly while stream is set; the keep-playing effect's cleanup clears its timer
released(s, v) ==
  IF s
    THEN [stream |-> FALSE,
          video |-> [v EXCEPT !.live = @ \ {v.held}, !.held = 0, !.srcObject = 0,
                              !.paused = TRUE, !.playTimer = FALSE]]
    ELSE [stream |-> s, video |-> v]

\* a stopCamera that drops the stream without stopping its tracks
stopCamera_video_keepingTracks ==
  video' = [video EXCEPT !.held = 0, !.srcObject = 0, !.paused = TRUE, !.playTimer = FALSE]

\* stopCamera, its effect on the streams and the element
stopCamera_video ==
  video' = released(stream, video).video

\* a playVideo that returns without touching the element
playVideo_idle ==
  /\ video.playTimer
  /\ video' = [video EXCEPT !.playTimer = FALSE]
  /\ UNCHANGED << backend, stream, pendingAcquire, acquired, scanner, quests, calc >>

\* playVideo, 150 ms after the camera view is shown: return when the stream is
\* not live; reattach when srcObject differs; play() when paused, with one retry
playVideo ==
  /\ video.playTimer
  /\ IF ~stream \/ video.held \notin video.live
       THEN video' = [video EXCEPT !.playTimer = FALSE]
       ELSE LET reattach == video.srcObject # video.held
                paused == reattach \/ video.paused
            IN IF paused
                 THEN \/ video' = [video EXCEPT !.playTimer = FALSE,
                                                !.srcObject = video.held,
                                                !.paused = FALSE, !.resumed = TRUE]
                      \/ /\ video.retry.effect < MaxRetryTimers
                         /\ video' = [video EXCEPT !.playTimer = FALSE,
                                                   !.srcObject = video.held,
                                                   !.paused = TRUE,
                                                   !.retry.effect = @ + 1]
                 ELSE video' = [video EXCEPT !.playTimer = FALSE]
  /\ UNCHANGED << backend, stream, pendingAcquire, acquired, scanner, quests, calc >>

RetryPaths == {"effect", "newScan"}

\* a retry timer whose catch starts another timer
retryPlay_again(p) ==
  /\ video.retry[p] > 0
  /\ \/ video' = [video EXCEPT !.lastRetry = [path |-> p, played |-> FALSE]]
     \/ /\ stream
        /\ video' = [video EXCEPT !.retry[p] = @ - 1, !.paused = FALSE,
                                  !.lastRetry = [path |-> p, played |-> TRUE]]
  /\ UNCHANGED << backend, stream, pendingAcquire, acquired, scanner, quests, calc >>

\* a retry timer fires: play() once more when the element and the stream exist;
\* a rejection is only logged (console.error('Retry play failed:', e))
retryPlay(p) ==
  /\ video.retry[p] > 0
  /\ \/ video' = [video EXCEPT !.retry[p] = @ - 1, !.lastRetry = [path |-> p, played |-> FALSE]]
     \/ /\ stream
        /\ video' = [video EXCEPT !.retry[p] = @ - 1, !.paused = FALSE,
                                  !.lastRetry = [path |-> p, played |-> TRUE]]
  /\ UNCHANGED << backend, stream, pendingAcquire, acquired, scanner, quests, calc >>

\* handleNewScan up to its 100 ms await (which ends well before a next result
\* can be dismissed); the keep-playing effect runs for the cleared result
handleNewScan_video ==
  /\ ~video.newScan.pending
  /\ video' = [video EXCEPT !.newScan = [pending |-> TRUE, stream |-> video.held],
                            !.playTimer = stream]

\* handleNewScan after the await: reattach the stream of the closure (setting
\* srcObject reloads the element) and play(), with one retry
handleNewScan_resumed ==
  /\ video.newScan.pending
  /\ IF stream /\ video.newScan.stream # 0
       THEN \/ video' = [video EXCEPT !.newScan = NoVideo.newScan,
                                      !.srcObject = video.newScan.stream,
                                      !.resumed = @ \/ video.paused,
                                      !.paused = FALSE]
            \/ /\ video.retry.newScan < MaxRetryTimers
               /\ video' = [video EXCEPT !.newScan = NoVideo.newScan,
                                         !.srcObject = video.newScan.stream,
                                         !.paused = TRUE,
                                         !.retry.newScan = @ + 1]
       ELSE video' = [video EXCEPT !.newScan = NoVideo.newScan]
  /\ UNCHANGED << backend, stream, pendingAcquire, acquired, scanner, quests, calc >>

\* the scan pipeline as the camera view sees it: setScannedBug(detectedBug) puts
\* the result over the video; the keep-playing effect's cleanup clears its timer
scanResultShown ==
  /\ video.mounted
  /\ auth.user # "null"
  /\ stream
  /\ scannedBug = NoBug
  /\ \E b \in {x.id : x \in bugs} : scannedBug' = b
  /\ video' = [video EXCEPT !.playTimer = FALSE]
  /\ UNCHANGED << backend, stream, pendingAcquire, acquired, isScanning, loading, flash,
                  error, capturedImage, challengeProgress, earnedBadge, started, inv,
                  quests, calc >>

\* the browser pauses the element (the page is hidden, the device sleeps)
videoPaused ==
  /\ video.srcObject # 0
  /\ ~video.paused
  /\ video' = [video EXCEPT !.paused = TRUE]
  /\ UNCHANGED << backend, stream, pendingAcquire, acquired, scanner, quests, calc >>

\* handleSignOut: the context's user becomes null (the redirect to /auth follows)
signOut ==
  /\ auth.user # "null"
  /\ auth' = SignedOut
  /\ UNCHANGED << bugs, bug_scans, user_profiles, user_badges, remote, sessions,
                  camera, scanner, quests, calc >>

\* the user signs in again on /auth
signIn ==
  /\ auth.user = "null"
  /\ auth' = SignedIn
  /\ UNCHANGED << bugs, bug_scans, user_profiles, user_badges, remote, sessions,
                  camera, scanner, quests, calc >>

\* the user navigates to another route: CameraScanner is unmounted and its state
\* dropped; no effect cleanup stops the tracks, pending calls keep running
unmount ==
  /\ video.mounted
  /\ stream' = FALSE
  /\ pendingAcquire' = 0
  /\ error' = NoError
  /\ scannedBug' = NoBug
  /\ capturedImage' = "null"
  /\ challengeProgress' = NoProgress
  /\ video' = [NoVideo EXCEPT !.mounted = FALSE,
                              !.created = video.created,
                              !.live = video.live,
                              !.orphans = video.orphans + pendingAcquire,
                              !.resumed = video.resumed,
                              !.lastAcquire = video.lastAcquire]
  /\ UNCHANGED << backend, acquired, isScanning, loading, flash, earnedBadge, started,
                  inv, quests, calc >>

\* the user navigates back to /scan: a new CameraScanner with its initial state
mount ==
  /\ ~video.mounted
  /\ video' = [video EXCEPT !.mounted = TRUE]
  /\ UNCHANGED << backend, stream, pendingAcquire, acquired, scanner, quests, calc >>

\* a startCamera call of an unmounted component settles: setStream has no effect
orphanSettled ==
  /\ video.orphans > 0
  /\ \/ video' = [video EXCEPT !.orphans = @ - 1, !.created = @ + 1,
                               !.live = @ \cup {video.created + 1}]
     \/ video' = [video EXCEPT !.orphans = @ - 1]
  /\ UNCHANGED << backend, stream, pendingAcquire, acquired, scanner, quests, calc >>

\* a complete scan by a client outside the mounted component (another user's, or
\* an earlier session of this user): the insert, then the increment
RemoteScan ==
  /\ remote < MaxRemote
  /\ \E u \in Users, b \in {x.id : x \in bugs} :
       LET r == bug_scans_insert(bug_scans, user_profiles, user_badges, u, b) IN
       /\ bug_scans' = r.bug_scans
       /\ user_badges' = r.user_badges
       /\ user_profiles' = increment_user_score(r.user_profiles, u, BugOf(b).points)
  /\ remote' = remote + 1
  /\ UNCHANGED << bugs, sessions, auth, camera, scanner, quests, calc >>


\* ------------------------------------- the user's devices at the backend
Devices == {"d1", "d2"}

\* per device: the call it is about to issue and how its last scan ended; the
\* ledger: points and increments applied by increment_user_score so far
NoSessions ==
  [dev |-> [d \in Devices |->
              [pc |-> "idle", bug |-> NoBug, done |-> 0, last |-> "none", heldThen |-> 0]],
   added |-> 0, increments |-> 0]

\* scanBug on one of the user's devices: the bug_scans insert (with its trigger)
deviceInsert(d) ==
  /\ sessions.dev[d].pc = "idle"
  /\ sessions.dev[d].done < MaxDeviceScans
  /\ \E b \in {x.id : x \in bugs} :
       \/ LET r == bug_scans_insert(bug_scans, user_profiles, user_badges, user, b) IN
          /\ bug_scans' = r.bug_scans
          /\ user_profiles' = r.user_profiles
          /\ user_badges' = r.user_badges
          /\ sessions' = [sessions EXCEPT !.dev[d] =
                            [@ EXCEPT !.pc = "rpc", !.bug = b, !.last = "inserted",
                                      !.heldThen = 0]]
       \/ LET r == bug_scans_insert_failed(bug_scans, user_profiles, user_badges, user, b) IN
          /\ bug_scans' = r.bug_scans
          /\ user_profiles' = r.user_profiles
          /\ user_badges' = r.user_badges
          /\ sessions' = [sessions EXCEPT !.dev[d] =
                            [@ EXCEPT !.done = @ + 1, !.last = "insertFailed",
                                      !.heldThen =
                                         Cardinality(HeldBadges(user_badges, user))]]
  /\ UNCHANGED << bugs, remote, auth, camera, scanner, quests, calc >>

\* scanBug on one of the user's devices: supabase.rpc('increment_user_score')
deviceIncrement(d) ==
  /\ sessions.dev[d].pc = "rpc"
  /\ LET points == BugOf(sessions.dev[d].bug).points IN
     \/ /\ user_profiles' = increment_user_score(user_profiles, user, points)
        /\ sessions' = [sessions EXCEPT !.dev[d] =
                          [@ EXCEPT !.pc = "idle", !.bug = NoBug, !.done = @ + 1,
                                    !.last = "scored"],
                        !.added = @ + points,
                        !.increments = @ + 1]
     \/ /\ UNCHANGED user_profiles
        /\ sessions' = [sessions EXCEPT !.dev[d] =
                          [@ EXCEPT !.pc = "idle", !.bug = NoBug, !.done = @ + 1,
                                    !.last = "rpcFailed"]]
  /\ UNCHANGED << bugs, bug_scans, user_badges, remote, auth, camera, scanner, quests, calc >>

\* --------------------------------------------------- CommunityChallenges
\* last: the current count each challenge's latest computation reported
NoQuests ==
  [pc |-> "unmounted", k |-> 0, loading |-> FALSE, progress |-> << >>,
   progressMap |-> << >>, last |-> [k \in 1..Len(CHALLENGES) |-> 0]]

\* the entity ids a challenge of CHALLENGES resolves to
questsBugIds(catalog, challenge) ==
  IF challenge.bugType = <<"r","a","r","e">>
    THEN rareBugIds(catalog, QuestsTiers)
    ELSE bugIdsOfType(catalog, challenge.bugType)

\* the body of the for loop: current and userContributed of one challenge, from
\* the two reads (ids, then the visible scans) and whether each succeeded
questsProgress(challenge, ids, idsOk, scans, scansOk, viewer) ==
  IF idsOk /\ ids # {} /\ scansOk
    THEN [challengeId |-> challenge.id,
          current |-> distinctBugs(scans),
          target |-> challenge.target,
          userContributed |->
            /\ viewer # "null"
            /\ \E r \in scans : r.user_id = viewer /\ r.bug_id \in ids]
    ELSE [challengeId |-> challenge.id, current |-> 0, target |-> challenge.target,
          userContributed |-> FALSE]

\* useState(new Map()), useState(true); the effect calls loadChallengeProgress,
\* which runs to its first await
questsMount ==
  /\ quests.pc = "unmounted"
  /\ quests' = [pc |-> "loading", k |-> 1, loading |-> TRUE, progress |-> << >>,
                progressMap |-> << >>, last |-> quests.last]
  /\ UNCHANGED << backend, camera, scanner, calc >>

\* progressMap.set(...) and the loop's next turn; after the last challenge
\* setProgress(progressMap) and, in finally, setLoading(false)
questsAdvance(entry) ==
  LET progressMap == Append(quests.progressMap, entry)
      last == [quests.last EXCEPT ![quests.k] = entry.current]
  IN
  /\ quests' = IF quests.k = Len(CHALLENGES)
                 THEN [pc |-> "idle", k |-> 0, loading |-> FALSE,
                       progress |-> progressMap, progressMap |-> << >>, last |-> last]
                 ELSE [quests EXCEPT !.k = @ + 1, !.progressMap = progressMap,
                                     !.last = last]
  /\ UNCHANGED << backend, camera, scanner, calc >>

\* one turn of the loop with both reads answered
questsChallenge_counted(k) ==
  LET challenge == CHALLENGES[k]
      ids == questsBugIds(bugs, challenge)
      scans == bug_scans_select(bug_scans, user, ids)
  IN
  /\ quests.pc = "loading"
  /\ quests.k = k
  /\ questsAdvance(questsProgress(challenge, ids, TRUE, scans, TRUE, user))

\* one turn of the loop with a failed read
questsChallenge_defaulted(k) ==
  LET challenge == CHALLENGES[k]
      ids == questsBugIds(bugs, challenge)
      scans == bug_scans_select(bug_scans, user, ids)
  IN
  /\ quests.pc = "loading"
  /\ quests.k = k
  /\ \E idsOk \in BOOLEAN :
       questsAdvance(questsProgress(challenge, ids, idsOk, scans, FALSE, user))

questsChallenge(k) ==
  \/ questsChallenge_counted(k)
  \/ questsChallenge_defaulted(k)

\* the user leaves the page: the component and its state are dropped
questsUnmount ==
  /\ quests.pc # "unmounted"
  /\ quests' = [NoQuests EXCEPT !.last = quests.last]
  /\ UNCHANGED << backend, camera, scanner, calc >>

\* an unclamped percentage
getProgressPercentageUnclamped(current, target) ==
  [num |-> current * 100, den |-> target]

\* Math.min((current / target) * 100, 100), as the fraction num / den; target is
\* one of the positive targets of CHALLENGES
getProgressPercentage(current, target) ==
  LET q == [num |-> current * 100, den |-> target] IN
  IF q.num <= 100 * q.den THEN q ELSE [num |-> 100, den |-> 1]

\* ---------------------------------------------- evaluation of the helpers
NoCalc == [fn |-> "none", done |-> FALSE]

RECURSIVE Perms(_)
Perms(S) ==
  IF S = {} THEN {<< >>}
  ELSE UNION { {<<x>> \o rest : rest \in Perms(S \ {x})} : x \in S }

\* a user_badges read result: the rows of a set of held badges, in any order
JoinedRows(held) ==
  Perms({ [badge_id |-> id, earned_at |-> 1, badge |-> CHOOSE b \in Badges : b.id = id] :
          id \in held })

Targets == {CHALLENGES[k].target : k \in 1..Len(CHALLENGES)}

\* the rarity tiers of a bugs row
Rarities == {"common", "uncommon", "rare", "epic", "legendary"}

\* names of scanned bugs: with both, one or none of the two words, in either case
ScannedNames ==
  { <<"M","o","n","a","r","c","h"," ","B","u","t","t","e","r","f","l","y">>,
    <<"B","E","E"," ","B","U","T","T","E","R","F","L","Y">>,
    <<"H","o","n","e","y","b","e","e">>,
    <<"B","e","e","t","l","e">>,
    <<"L","a","d","y","b","u","g">>,
    <<"G","o","l","i","a","t","h">> }

CalcInputs ==
  UNION {
    { [fn |-> "newBadges", done |-> FALSE, userBadges |-> ub, badgeIdsBefore |-> B] :
        ub \in UNION {JoinedRows(held) : held \in SUBSET BadgeIds},
        B \in SUBSET BadgeIds },
    { [fn |-> "getProgressPercentage", done |-> FALSE, current |-> c, target |-> t] :
        c \in 0..MaxCurrent, t \in Targets },
    { [fn |-> "questsProgress", done |-> FALSE, k |-> k, catalog |-> cat,
       scanned |-> sc, viewer |-> user] :
        k \in 1..Len(CHALLENGES),
        cat \in Catalogs,
        sc \in SUBSET (Users \X {"b1", "b4"}) },
    { [fn |-> "detectBug", done |-> FALSE, rows |-> 1..n, ok |-> ok] :
        n \in {0, 1, BugsPageLimit, MaxRows}, ok \in BOOLEAN },
    { [fn |-> "checkChallengeContribution", done |-> FALSE,
       bug |-> [name |-> nm, rarity |-> ra]] :
        nm \in ScannedNames, ra \in Rarities } }

calc_newBadges ==
  /\ calc.fn = "newBadges"
  /\ ~calc.done
  /\ calc' = [fn |-> calc.fn, done |-> TRUE, userBadges |-> calc.userBadges,
              badgeIdsBefore |-> calc.badgeIdsBefore,
              result |-> newBadges(calc.userBadges, calc.badgeIdsBefore)]
  /\ UNCHANGED << backend, camera, scanner, quests >>

calc_getProgressPercentage ==
  /\ calc.fn = "getProgressPercentage"
  /\ ~calc.done
  /\ calc' = [fn |-> calc.fn, done |-> TRUE, current |-> calc.current,
              target |-> calc.target,
              result |-> getProgressPercentage(calc.current, calc.target)]
  /\ UNCHANGED << backend, camera, scanner, quests >>

calc_questsProgress ==
  /\ calc.fn = "questsProgress"
  /\ ~calc.done
  /\ LET challenge == CHALLENGES[calc.k]
         ids == questsBugIds(calc.catalog, challenge)
         bs == [x \in Users \X BugIds |-> IF x \in calc.scanned THEN 1 ELSE 0]
         scans == bug_scans_select(bs, calc.viewer, ids)
     IN \E idsOk \in BOOLEAN, scansOk \in BOOLEAN :
          calc' = [fn |-> calc.fn, done |-> TRUE, k |-> calc.k, catalog |-> calc.catalog,
                   scanned |-> calc.scanned, viewer |-> calc.viewer,
                   result |-> questsProgress(challenge, ids, idsOk, scans, scansOk,
                                             calc.viewer)]
  /\ UNCHANGED << backend, camera, scanner, quests >>

\* checkChallengeContribution(bug): the challenge, whether loadChallengeProgress
\* is called (if (challengeId)), and the target it then puts in the payload
calc_checkChallengeContribution ==
  /\ calc.fn = "checkChallengeContribution"
  /\ ~calc.done
  /\ LET challengeId == checkChallengeContribution(calc.bug) IN
     calc' = [fn |-> calc.fn, done |-> TRUE, bug |-> calc.bug,
              result |-> [challengeId |-> challengeId,
                          loads |-> challengeId # "null",
                          target |-> IF challengeId = "null" THEN 0
                                     ELSE challengeTarget(challengeId)]]
  /\ UNCHANGED << backend, camera, scanner, quests >>

\* detectBug on a bugs table of numbered rows
calc_detectBug ==
  /\ calc.fn = "detectBug"
  /\ ~calc.done
  /\ \E page \in IF calc.ok THEN limit(calc.rows, BugsPageLimit) ELSE {{}} :
       \E r \in detectBugReturn(calc.ok, page) :
         calc' = [fn |-> calc.fn, done |-> TRUE, rows |-> calc.rows, ok |-> calc.ok,
                  page |-> page, result |-> r]
  /\ UNCHANGED << backend, camera, scanner, quests >>

\* ------------------------------------------------------- specifications
InitBackend ==
  /\ bugs \in Catalogs
  /\ bug_scans = [k \in Users \X BugIds |-> 0]
  /\ user_profiles = [u \in Users |-> NoProfile]
  /\ user_badges = {}
  /\ remote = 0
  /\ sessions = NoSessions
  /\ auth = SignedIn

InitScanner ==
  /\ stream = FALSE
  /\ pendingAcquire = 0
  /\ acquired = 0
  /\ video = NoVideo
  /\ isScanning = FALSE
  /\ loading = FALSE
  /\ flash = FALSE
  /\ error = NoError
  /\ scannedBug = NoBug
  /\ capturedImage = "null"
  /\ challengeProgress = NoProgress
  /\ earnedBadge = NoBadge
  /\ started = 0
  /\ inv = [i \in Invocations |-> BlankInv]

Init ==
  /\ InitBackend
  /\ InitScanner
  /\ quests = NoQuests
  /\ calc = NoCalc

Next ==
  \/ acquired < MaxAcquire /\ startCamera /\ UNCHANGED video
  \/ startCamera_settled /\ UNCHANGED video
  \/ stopCamera /\ UNCHANGED video
  \/ scanBug
  \/ scanBugRejected
  \/ \E i \in Invocations : flashOff(i)
  \/ \E i \in Invocations : detectBug(i)
  \/ \E i \in Invocations : insertScan(i)
  \/ \E i \in Invocations : readBadgesBefore(i)
  \/ \E i \in Invocations : incrementScore(i)
  \/ \E i \in Invocations : loadChallengeProgress_bugs(i)
  \/ \E i \in Invocations : loadChallengeProgress_scans(i)
  \/ \E i \in Invocations : checkBadges(i)
  \/ \E i \in Invocations : showBadge(i)
  \/ onClose
  \/ handleNewScan /\ UNCHANGED video

Spec == Init /\ [][Next]_vars

\* the scan pipeline from the click to the end of scanBug, with the result's
\* dismissal (the reveals that follow scanBug are left pending)
PipelineStep ==
  \E i \in Invocations :
    \/ flashOff(i)
    \/ detectBug(i)
    \/ insertScan(i)
    \/ readBadgesBefore(i)
    \/ incrementScore(i)

NextSettling ==
  \/ acquired < MaxAcquire /\ startCamera /\ UNCHANGED video
  \/ startCamera_settled /\ UNCHANGED video
  \/ stopCamera /\ UNCHANGED video
  \/ scanBug
  \/ scanBugRejected
  \/ PipelineStep
  \/ handleNewScan /\ UNCHANGED video

\* every await of scanBug settles: the flash timer fires, detectBug resolves,
\* and each backend call returns its result or its error
SpecSettling == Init /\ [][NextSettling]_vars /\ WF_vars(PipelineStep)

\* the Quests page (route /quests), with scans arriving from other clients
NextQuests ==
  \/ questsMount
  \/ \E k \in 1..Len(CHALLENGES) : questsChallenge(k)
  \/ questsUnmount
  \/ RemoteScan

SpecQuests == Init /\ [][NextQuests]_vars

\* the camera of the scan page: the media streams and the <video> element, with
\* the scan pipeline reduced to the result it puts over the video
NextCamera ==
  \/ acquired < MaxStreams /\ startCamera /\ startCamera_video
  \/ startCamera_envFailed
  \/ startCamera_settled /\ startCamera_settled_video
  \/ attachPlay_settled
  \/ stopCamera /\ stopCamera_video
  \/ playVideo
  \/ \E p \in RetryPaths : retryPlay(p)
  \/ handleNewScan /\ handleNewScan_video
  \/ handleNewScan_resumed
  \/ scanResultShown
  \/ auth.user = "null" /\ scanBug /\ UNCHANGED video
  \/ signOut /\ UNCHANGED video
  \/ signIn /\ UNCHANGED video
  \/ videoPaused
  \/ unmount
  \/ mount
  \/ orphanSettled

SpecCamera == Init /\ [][NextCamera]_vars

\* the scan page of a returning user: scans of earlier sessions and of other
\* clients (RemoteScan) around an invocation of this mount, from the click to
\* the achievement reveal (without the progress load and the result's buttons)
NextReturning ==
  \/ RemoteScan
  \/ acquired < MaxAcquire /\ startCamera /\ UNCHANGED video
  \/ startCamera_settled /\ UNCHANGED video
  \/ started < MaxReturning /\ scanBug
  \/ \E i \in Invocations : flashOff(i)
  \/ \E i \in Invocations : detectBug(i)
  \/ \E i \in Invocations : insertScan(i)
  \/ \E i \in Invocations : readBadgesBefore(i)
  \/ \E i \in Invocations : incrementScore(i)
  \/ \E i \in Invocations : checkBadges(i)
  \/ \E i \in Invocations : showBadge(i)

SpecReturning == Init /\ [][NextReturning]_vars

\* the backend under the same user's scans from several devices
NextBackend ==
  \/ \E d \in Devices : deviceInsert(d)
  \/ \E d \in Devices : deviceIncrement(d)

SpecBackend == Init /\ [][NextBackend]_vars

\* the pure helpers, each applied once to an input drawn from CalcInputs
InitCalc ==
  /\ InitBackend
  /\ InitScanner
  /\ quests = NoQuests
  /\ calc \in CalcInputs

NextCalc ==
  \/ calc_newBadges
  \/ calc_getProgressPercentage
  \/ calc_questsProgress
  \/ calc_detectBug
  \/ calc_checkChallengeContribution

SpecCalc == InitCalc /\ [][NextCalc]_vars

\* ------------------------------------------------- properties of the scan
NoneInFlight == \A i \in Invocations : ~InFlight(i)

\* C1: at most one scan invocation is in flight at any time: while one is in
\* flight the scan trigger is disabled (a second trigger is rejected, it is
\* neither queued nor does it touch the first), and no invocation writes more
\* than one observation record.
C1_SingleInFlight ==
  /\ Cardinality({i \in Invocations : InFlight(i)}) <= 1
  /\ \A i \in Invocations :
       /\ InFlight(i) => ~ScanButtonEnabled
       /\ inv[i].inserts <= 1
       /\ inv[i].rejected => InFlight(i)

\* a second trigger was rejected while the first had already written its record
C1_Witness ==
  \E i \in Invocations :
    /\ InFlight(i)
    /\ inv[i].rejected
    /\ inv[i].inserts = 1
    /\ RowsOf(bug_scans, user) = 1

\* C2: every invocation that reaches the displayed result has persisted exactly
\* one observation record and has incremented the user's observation count by
\* exactly 1.
C2_ResultMeansOneRecordOneCount ==
  \A i \in Invocations :
    (inv[i].outcome = "success" /\ scannedBug # NoBug)
      => (inv[i].inserts = 1 /\ inv[i].countDelta = 1)

\* C3: when identification returns no match, no record is written, no score
\* increment is issued, the 'no match' message is surfaced and the pipeline is
\* back in Idle.
C3_NoMatchWritesNothing ==
  \A i \in Invocations :
    inv[i].outcome = "nomatch"
      => /\ inv[i].inserts = 0
         /\ inv[i].issued = {}
         /\ inv[i].scoreDelta = 0
         /\ inv[i].countDelta = 0
         /\ inv[i].grants = {}
         /\ inv[i].msg = MsgNoBug
         /\ ~isScanning /\ ~loading
         /\ scannedBug = NoBug

\* an invocation ended without a match although the catalog has rows
C3_Witness ==
  \E i \in Invocations :
    /\ inv[i].outcome = "nomatch"
    /\ error = MsgNoBug
    /\ bugs # {}
    /\ RowsOf(bug_scans, user) = 0

\* C4: starting from 0 prior observations, after a successful scan of a 15-point
\* entity (every call succeeding) the profile shows total_score 15 and
\* bugs_scanned 1, and the achievement with threshold observation count >= 1 is
\* reported as newly granted.
C4_FirstScanReportsFirstBadge ==
  \A i \in Invocations :
    ( /\ started = 1
      /\ inv[i].outcome = "success"
      /\ BugOf(inv[i].bug).points = 15
      /\ inv[i].countDelta = 1
      /\ inv[i].badgePc \in {"timer2000", "done"} )
      => /\ Score(user_profiles, user) = 15
         /\ Count(user_profiles, user) = 1
         /\ inv[i].newBadge = "first_scan"

\* the badge ids of a sequence of user_badges rows
IdsOf(rows) == {rows[n].badge_id : n \in 1..Len(rows)}

\* C5: the achievement diff is a set difference: for every snapshot before and
\* every read result after, the rows reported as new are exactly the rows of
\* after whose id is not in before, each once, and nothing else.
C5_DiffIsSetDifference ==
  (calc.fn = "newBadges" /\ calc.done)
    => /\ IdsOf(calc.result) = IdsOf(calc.userBadges) \ calc.badgeIdsBefore
       /\ Len(calc.result) = Cardinality(IdsOf(calc.result))
       /\ IdsOf(calc.userBadges) \subseteq calc.badgeIdsBefore => calc.result = << >>
       /\ calc.badgeIdsBefore = {} => calc.result = calc.userBadges

\* diff({a,b}, {a,b,c,d}) = {c,d}
C5_Witness ==
  /\ calc.fn = "newBadges"
  /\ calc.done
  /\ calc.badgeIdsBefore = {"first_scan", "collector"}
  /\ IdsOf(calc.userBadges) = BadgeIds
  /\ IdsOf(calc.result) = {"high_scorer", "butterfly_lover"}

\* C6: for every community goal the reported current count is the number of
\* distinct entities matching the goal that have at least one observation
\* record from any user.
C6_CountsRecordsOfAnyUser ==
  [][\A k \in 1..Len(CHALLENGES) :
       questsChallenge_counted(k)
         => LET entry == IF k = Len(CHALLENGES) THEN quests'.progress[k]
                         ELSE quests'.progressMap[k]
            IN entry.current =
                 Cardinality({id \in questsBugIds(bugs, CHALLENGES[k]) :
                                \E u \in Users : bug_scans[<<u, id>>] > 0})]_vars

\* C7: the display percentage is min(current/target, 1) x 100: the divisor is
\* never zero, the value lies in [0, 100], 12 of 30 gives 40; and an empty
\* resolved entity-id set gives current = 0 and contributed = false.
C7_PercentageClamped ==
  /\ (calc.fn = "getProgressPercentage" /\ calc.done)
       => /\ calc.target # 0
          /\ calc.result.den > 0
          /\ 0 <= calc.result.num
          /\ calc.result.num <= 100 * calc.result.den
          /\ IF calc.current <= calc.target
               THEN calc.result.num * calc.target = calc.current * 100 * calc.result.den
               ELSE calc.result.num = 100 * calc.result.den
          /\ (calc.current = 12 /\ calc.target = 30)
               => calc.result.num = 40 * calc.result.den
  /\ (calc.fn = "questsProgress" /\ calc.done
        /\ questsBugIds(calc.catalog, CHALLENGES[calc.k]) = {})
       => /\ calc.result.current = 0
          /\ ~calc.result.userContributed

\* a count above its target was evaluated
C7_Witness ==
  /\ calc.fn = "getProgressPercentage"
  /\ calc.done
  /\ calc.current > calc.target
  /\ calc.result.num = 100 * calc.result.den

\* C8: the rarity goal counts the 'rare', 'epic' and 'legendary' tiers, both
\* when a freshly recorded entity is matched to the goal and when the goal's
\* progress is counted (all rows of this specification are the user's own).
C8_RarityTiers ==
  /\ [](\A i \in Invocations :
          ( /\ inv[i].outcome = "success"
            /\ BugOf(inv[i].bug).rarity \in {"rare", "epic", "legendary"} )
            => inv[i].progPc # "none")
  /\ [][\A i \in Invocations :
          ( /\ loadChallengeProgress_counted(i)
            /\ BugOf(inv[i].bug).rarity \in {"rare", "epic", "legendary"} )
            => /\ challengeProgress'.challengeId = "rare-challenge"
               /\ challengeProgress'.current =
                    Cardinality({b \in bugs :
                       /\ b.rarity \in {"rare", "epic", "legendary"}
                       /\ \E u \in Users : bug_scans[<<u, b.id>>] > 0})]_vars

\* the rarity goal shows 2 after an epic and a legendary entity were recorded
C8_Witness ==
  /\ challengeProgress.challengeId = "rare-challenge"
  /\ challengeProgress.current = 2
  /\ bug_scans[<<user, "b5">>] > 0
  /\ bug_scans[<<user, "b6">>] > 0

\* C9: an invocation that ends by surfacing an error leaves the backend as it
\* was: it has written no observation record, no score, no count and no grant.
C9_ErrorLeavesBackendUnchanged ==
  \A i \in Invocations :
    inv[i].msg # NoError
      => /\ inv[i].inserts = 0
         /\ inv[i].scoreDelta = 0
         /\ inv[i].countDelta = 0
         /\ inv[i].grants = {}

\* an invocation whose insert was issued ended with the backend's error message
C9_Witness ==
  \E i \in Invocations :
    /\ inv[i].outcome = "error"
    /\ "insert" \in inv[i].issued
    /\ error = MsgScanError
    /\ RowsOf(bug_scans, user) = 0

\* C10: whenever no invocation is in flight, the user's bugs_scanned equals the
\* number of bug_scans rows the user owns.
C10_CountEqualsRows ==
  NoneInFlight => Count(user_profiles, user) = RowsOf(bug_scans, user)

\* C11: starting a new invocation, or the user dismissing the result, while an
\* achievement reveal of an earlier invocation is still pending cancels that
\* reveal: after such a step no reveal timer of an earlier invocation is pending.
C11_PendingRevealCancelled ==
  [][((scannedBug # NoBug /\ scannedBug' = NoBug) \/ started' = started + 1)
       => \A i \in Invocations : inv'[i].badgePc # "timer2000"]_vars

\* C16: a failed reconciliation step (the progress reads, the after-snapshot
\* read of the diff) never makes the scan appear to fail: the step leaves the
\* revealed result and the error banner as they were, and the invocation's
\* account shows no error.
C16_ReconciliationErrorsSuppressed ==
  /\ [](\A i \in Invocations :
          (inv[i].progPc = "defaulted" \/ inv[i].badgePc = "failed")
            => (inv[i].outcome \in {"success", "retired"} /\ inv[i].msg = NoError))
  /\ [][\A i \in Invocations :
          ( \/ inv'[i].badgePc = "failed" /\ inv[i].badgePc # "failed"
            \/ inv'[i].progPc = "defaulted" /\ inv[i].progPc # "defaulted"
            \/ inv[i].badgePc = "timer500" /\ inv'[i] = RetiredInv
            \/ inv[i].progPc \in {"bugs", "scans"} /\ inv'[i] = RetiredInv )
            => (error' = error /\ scannedBug' = scannedBug)]_vars

\* the result is on screen, both reconciliation reads failed, no error is shown
C16_Witness ==
  \E i \in Invocations :
    /\ inv[i].outcome = "success"
    /\ inv[i].badgePc = "failed"
    /\ inv[i].progPc = "defaulted"
    /\ scannedBug = inv[i].bug
    /\ error = NoError

\* C20: within one invocation the reveals are ordered: the result reveal comes
\* first; a progress reveal occurs only if the entity matched a goal; an
\* achievement reveal occurs only if the diff found new grants, and after the
\* result and the progress reveals.
C20_RevealsOrdered ==
  /\ [](\A i \in Invocations :
          (inv[i].progPc # "none" \/ inv[i].badgePc # "none")
            => inv[i].pc = "done")
  /\ [][\A i \in Invocations :
          /\ (inv[i].progPc = "none" /\ inv'[i].progPc # "none")
               => checkChallengeContribution(BugOf(inv'[i].bug)) # "null"
          /\ (inv[i].badgePc # "timer2000" /\ inv'[i].badgePc = "timer2000")
               => inv'[i].newBadge # NoBadge
          /\ (inv[i].badgePc = "timer2000" /\ inv'[i].badgePc # "timer2000")
               => inv[i].progPc \notin {"bugs", "scans"}]_vars

C18_OneGrantPerBadge ==
  \A r1 \in user_badges, r2 \in user_badges :
    (r1.user_id = r2.user_id /\ r1.badge_id = r2.badge_id) => r1 = r2

\* the eligibility check ran twice more after the first grant
C18_Witness ==
  /\ "first_scan" \in HeldBadges(user_badges, user)
  /\ RowsOf(bug_scans, user) >= 4
  /\ Count(user_profiles, user) >= 2

\* C19: the set of grants of a user never shrinks: every grant present before a
\* step of a pipeline run is present after it, whether the run succeeds or fails.
C19_GrantsNeverShrink ==
  [][user_badges \subseteq user_badges']_vars

\* an insert failed while the user held two grants, and both are still there
C19_Witness ==
  \E d \in Devices :
    /\ sessions.dev[d].last = "insertFailed"
    /\ sessions.dev[d].heldThen = 2
    /\ Cardinality(HeldBadges(user_badges, user)) >= 2

\* ------------------------------------------------------------------ C12
OneLiveStream == Cardinality(video.live) <= 1 /\ video.live \subseteq {video.held}

\* C12: startCamera and stopCamera calls of a mounted scan page, in any order
\* and interleaving, keep at most one acquired stream live, and a live stream
\* is the one held and attached (a new acquire releases the prior stream first).
C12_AtMostOneLiveStream ==
  [][(video.mounted /\ video'.mounted /\ video.orphans = 0 /\ OneLiveStream)
       => OneLiveStream']_vars

\* ------------------------------------------------------------------ C13
\* C13: every startCamera call that settles tried the rear camera first, tried
\* any camera if and only if the rear attempt failed, sets a camera error only
\* when both attempts failed, and on a success of either attempt holds and
\* attaches the new stream and clears the error.
C13_RearFirstThenAny ==
  [][(pendingAcquire' = pendingAcquire - 1 /\ video'.mounted) =>
       LET a == video'.lastAcquire IN
       /\ a.env \in {"ok", "failed"}
       /\ (a.any # "none") <=> (a.env = "failed")
       /\ (error' # NoError) => (a.env = "failed" /\ a.any = "failed")
       /\ (a.env = "failed" /\ a.any = "failed")
            => (error' \in CameraErrors /\ stream' = stream /\ video'.held = video.held
                /\ video'.created = video.created)
       /\ (a.env = "ok" \/ a.any = "ok")
            => /\ stream'
               /\ error' = NoError
               /\ video'.created = video.created + 1
               /\ video'.held = video'.created
               /\ video'.held \in video'.live
               /\ video'.srcObject = video'.held]_vars

C13_Witness ==
  /\ video.lastAcquire = [env |-> "failed", any |-> "ok"]
  /\ stream
  /\ video.held = 1
  /\ video.srcObject = 1
  /\ error = NoError

\* ------------------------------------------------------------------ C14
\* C14: playVideo and the resuming part of handleNewScan request no stream and
\* leave the held stream and its tracks as they are; without a stream they
\* leave the element alone; with the held stream attached and paused they call
\* play() on it (the video plays, or the one retry is scheduled).
C14_EnsurePlayingResumes ==
  [][(playVideo \/ handleNewScan_resumed) =>
       /\ acquired' = acquired
       /\ pendingAcquire' = pendingAcquire
       /\ stream' = stream
       /\ video'.created = video.created
       /\ video'.live = video.live
       /\ video'.held = video.held
       /\ video'.fallback = video.fallback
       /\ ~stream => /\ video'.srcObject = video.srcObject
                     /\ video'.paused = video.paused
                     /\ video'.retry = video.retry
       /\ ( /\ stream
            /\ video.held \in video.live
            /\ video.srcObject = video.held
            /\ video.paused
            /\ video.newScan.pending => video.newScan.stream = video.held )
            => /\ video'.srcObject = video.held
               /\ ~video'.paused \/ video'.retry # video.retry]_vars

C14_Witness ==
  /\ video.resumed
  /\ ~video.paused
  /\ stream
  /\ video.srcObject = 1
  /\ video.created = 1
  /\ acquired = 1

\* ------------------------------------------------------------------ C15
\* C15: a stream that is held and live stays held and live through every step
\* that is not stopCamera and acquires nothing: the result shown over the video
\* and dismissed, and the scan page left and shown again.
C15_StaysAttachedAcrossHide ==
  [][( /\ stream
       /\ video.held \in video.live
       /\ ~(~stream' /\ video'.mounted)
       /\ video'.created = video.created )
       => (stream' /\ video'.held = video.held /\ video'.held \in video'.live)]_vars

\* ------------------------------------------------------------------ C21
\* C21: a scanBug trigger while there is no current user changes no state of
\* the component (in-flight flags, flash, error, result, captured image) and
\* starts nothing: no invocation, no capture, no classification, no backend call.
C21_NoUserDisablesPipeline ==
  [][(auth.user = "null" /\ scanBug) =>
       UNCHANGED << isScanning, loading, flash, error, scannedBug, capturedImage,
                    challengeProgress, earnedBadge, started, inv,
                    bugs, bug_scans, user_profiles, user_badges >>]_vars

C21_Witness ==
  /\ auth.user = "null"
  /\ auth.ignored
  /\ stream
  /\ started = 0
  /\ ~isScanning

\* ------------------------------------------------------------------ C22
\* C22: stopCamera stops the tracks of the held stream (and of no other),
\* clears the stream state, detaches the element and pauses it; with no stream
\* it changes nothing, so that releasing what a release left gives the same
\* state again.
C22_ReleaseStopsAndDetaches ==
  /\ [](LET r == released(stream, video) IN
          /\ released(r.stream, r.video) = r
          /\ ~stream => (r.stream = stream /\ r.video = video))
  /\ [][(stream /\ ~stream' /\ video'.mounted) =>
          /\ video.held \in video.live
          /\ video'.live = video.live \ {video.held}
          /\ video'.held = 0
          /\ video'.srcObject = 0
          /\ video'.paused]_vars

C22_Witness ==
  /\ ~stream
  /\ video.mounted
  /\ video.created = 1
  /\ video.live = {}
  /\ video.held = 0
  /\ video.srcObject = 0
  /\ pendingAcquire = 0

\* ------------------------------------------------------------------ C23
\* C23: for each challenge, the current count a progress computation reports is
\* never below the count the previous computation for that challenge reported,
\* whatever scans any users make in between.
C23_ProgressNonDecreasing ==
  [][\A k \in 1..Len(CHALLENGES) : quests'.last[k] >= quests.last[k]]_vars

\* ------------------------------------------------------------------ C24
\* C24: within one invocation the steps run one after the other: the frame is
\* captured when classification runs; the write is issued only with the
\* classified bug; the before-snapshot read is issued only after the write has
\* added its record; the score increment is issued only after the before
\* snapshot was read; the result is revealed only by the step in which the
\* increment returns; and the after-snapshot read (checkBadges) is scheduled
\* only once scanBug has returned from the increment.
C24_StepsSequential ==
  /\ [](\A i \in Invocations :
          LET r == inv[i] IN
          /\ r.pc \in {"detectBug", "insert", "badgesBefore", "rpc"}
               => (capturedImage # "null" /\ r.outcome = "none")
          /\ (r.pc = "detectBug") => (r.bug = NoBug /\ r.issued = {})
          /\ ("insert" \in r.issued) => (r.bug # NoBug)
          /\ (r.pc = "insert") => (r.issued = {"insert"} /\ r.inserts = 0)
          /\ ("badgesBefore" \in r.issued) => ("insert" \in r.issued /\ r.inserts = 1)
          /\ (r.pc = "badgesBefore") => ("increment_user_score" \notin r.issued)
          /\ ("increment_user_score" \in r.issued)
               => ("badgesBefore" \in r.issued /\ r.pc \in {"rpc", "done"})
          /\ (r.pc = "rpc") => (r.countDelta = 0 /\ r.scoreDelta = 0)
          /\ (r.outcome = "success")
               => (r.pc = "done" /\ "increment_user_score" \in r.issued)
          /\ (r.badgePc # "none") => (r.pc = "done"))
  /\ [][/\ (scannedBug' # scannedBug /\ scannedBug' # NoBug)
             => \E i \in Invocations : inv[i].pc = "rpc" /\ inv'[i].pc = "done"
        /\ \A i \in Invocations :
             (inv[i].badgePc = "none" /\ inv'[i].badgePc # "none")
               => (inv[i].pc = "rpc" /\ inv'[i].pc = "done")]_vars

C24_Witness ==
  \E i \in Invocations :
    /\ inv[i].outcome = "success"
    /\ inv[i].issued = {"insert", "badgesBefore", "increment_user_score"}
    /\ inv[i].inserts = 1
    /\ inv[i].countDelta = 1
    /\ inv[i].badgePc = "timer500"
    /\ scannedBug = inv[i].bug

\* ------------------------------------------------------------------ C25
\* C25: an invocation whose bug_scans insert fails puts the insert's error on
\* the error banner and returns to idle in that step; it issues no
\* before-snapshot read and no score increment, reveals no result, and starts
\* neither the progress load nor the achievement check.
C25_PersistFailureIsFatal ==
  /\ [](\A i \in Invocations :
          (inv[i].outcome = "error" /\ "insert" \in inv[i].issued)
            => /\ inv[i].pc = "done"
               /\ inv[i].msg = MsgScanError
               /\ inv[i].issued = {"insert"}
               /\ inv[i].progPc = "none"
               /\ inv[i].badgePc = "none"
               /\ inv[i].newBadge = NoBadge)
  /\ [][\A i \in Invocations :
          (inv[i].pc = "insert" /\ inv'[i].outcome = "error")
            => /\ error' = MsgScanError
               /\ ~isScanning'
               /\ ~loading'
               /\ scannedBug' = NoBug
               /\ challengeProgress' = challengeProgress
               /\ earnedBadge' = earnedBadge
               /\ user_profiles' = user_profiles]_vars

C25_Witness ==
  \E i \in Invocations :
    /\ inv[i].outcome = "error"
    /\ inv[i].issued = {"insert"}
    /\ inv[i].badgePc = "none"
    /\ error = MsgScanError
    /\ ~isScanning
    /\ ~loading
    /\ scannedBug = NoBug

\* ------------------------------------------------------------------ C26
\* C26: an invocation whose score increment fails (the profile is left as it
\* was) surfaces an error and reveals no result.
C26_ScoreFailureIsFatal ==
  [][\A i \in Invocations :
       (inv[i].pc = "rpc" /\ inv'[i].pc = "done" /\ user_profiles' = user_profiles)
         => (error' # NoError /\ scannedBug' = NoBug)]_vars

\* ------------------------------------------------------------------ C27
\* C27: an invocation never schedules an achievement reveal for a grant the
\* user already held before the invocation (a grant held when the before
\* snapshot was read and not made by the invocation's own write), in
\* particular not when the before-snapshot read fails.
C27_ExistingGrantsNotRevealed ==
  [][\A i \in Invocations :
       (inv[i].badgePc = "timer500" /\ inv'[i].badgePc = "timer2000")
         => inv'[i].newBadge \notin
              (inv[i].heldBefore \ {g.badge_id : g \in inv[i].grants})]_vars

\* ------------------------------------------------------------------ C28
\* C28: when a read of the progress computation for the matched challenge
\* fails, no progress payload is presented for that invocation.
C28_FailedProgressOmitted ==
  [][\A i \in Invocations :
       (inv[i].progPc \in {"bugs", "scans"} /\ inv'[i].progPc = "defaulted")
         => challengeProgress' = NoProgress]_vars

\* ------------------------------------------------------------------ C29
\* C29: when the write of an invocation granted several achievements, and the
\* before snapshot and the after snapshot were both read, checkBadges schedules
\* a reveal, and it is for one of those grants with the most recent timestamp.
C29_OneRevealMostRecent ==
  [][\A i \in Invocations :
       ( /\ inv[i].badgePc = "timer500"
         /\ inv'[i].badgePc \in {"done", "timer2000"}
         /\ inv[i].before = inv[i].heldBefore
         /\ Cardinality(inv[i].grants) >= 2 )
         => /\ inv'[i].badgePc = "timer2000"
            /\ \E x \in inv[i].grants :
                 /\ x.badge_id = inv'[i].newBadge
                 /\ \A y \in inv[i].grants : y.earned_at <= x.earned_at]_vars

\* ------------------------------------------------------------------ C30
\* C30: every progress entry the Quests page computes for a challenge has
\* userContributed true if and only if the acting user owns at least one scan
\* of a bug the challenge resolves to.
C30_ContributedIffOwnRecord ==
  [][\A k \in 1..Len(CHALLENGES) :
       questsChallenge(k)
         => LET entry == IF k = Len(CHALLENGES) THEN quests'.progress[k]
                         ELSE quests'.progressMap[k]
            IN entry.userContributed
                 <=> \E id \in questsBugIds(bugs, CHALLENGES[k]) :
                       bug_scans[<<user, id>>] > 0]_vars

C33_IdleOnlyAfterDismissal ==
  [][/\ started' # started => scannedBug = NoBug
     /\ (scannedBug # NoBug /\ scannedBug' # scannedBug)
          => /\ scannedBug' = NoBug
             /\ error' = NoError
             /\ capturedImage' = "null"
             /\ challengeProgress' = NoProgress
             /\ started' = started]_vars

\* a result is shown over the live camera with both in-flight flags cleared
C33_Witness ==
  /\ scannedBug # NoBug
  /\ stream
  /\ ~loading
  /\ ~isScanning
  /\ started = 1
  /\ inv[1].outcome = "success"
  /\ ~ScanButtonEnabled

\* ------------------------------------------------------------------ C34
\* C34: when every await of scanBug settles, an invocation that is in flight
\* with loading and isScanning set leads to both flags being false, whatever
\* the outcome of the flash, the classification, the insert, the snapshot read
\* and the score increment.
C34_FlagsEventuallyCleared ==
  \A i \in Invocations :
    (InFlight(i) /\ loading /\ isScanning) ~> (~loading /\ ~isScanning)

\* an invocation whose insert failed has ended with both flags cleared
C34_Witness ==
  \E i \in Invocations :
    /\ inv[i].pc = "done"
    /\ inv[i].outcome = "error"
    /\ inv[i].msg = MsgScanError
    /\ "insert" \in inv[i].issued
    /\ ~loading
    /\ ~isScanning

\* ------------------------------------------------------------------ C35
\* C35: detectBug returns null only when the bugs read failed or returned no
\* rows; when the read returned rows it returns exactly one row, which is one
\* of the at most 100 rows of the page that was read.
C35_ClassifyFromPage ==
  (calc.fn = "detectBug" /\ calc.done) =>
    /\ calc.result = {} => (~calc.ok \/ calc.rows = {})
    /\ (calc.ok /\ calc.rows # {}) =>
         /\ Cardinality(calc.result) = 1
         /\ calc.result \subseteq calc.page
         /\ calc.page \subseteq calc.rows
         /\ Cardinality(calc.page) <= 100

\* a row was returned from a table of more than 100 rows
C35_Witness ==
  /\ calc.fn = "detectBug"
  /\ calc.done
  /\ Cardinality(calc.rows) > 100
  /\ Cardinality(calc.page) = 100
  /\ Cardinality(calc.result) = 1

\* ------------------------------------------------------------------ C36
\* C36: a progress payload shown together with a result was computed by the
\* invocation that produced that result, and its challenge is the one the
\* result's bug contributes to.
C36_ProgressBelongsToResult ==
  (scannedBug # NoBug /\ challengeProgress # NoProgress) =>
    /\ inv[challengeProgress.by].outcome = "success"
    /\ challengeProgress.challengeId = checkChallengeContribution(BugOf(scannedBug))

\* ------------------------------------------------------------------ C37
\* C37: with no invocation in flight and every scan of the user recorded and
\* scored, the user holds every scan_count badge whose value is at most
\* bugs_scanned and every score_threshold badge whose value is at most
\* total_score.
C37_EligibleBadgesGranted ==
  ( /\ NoneInFlight
    /\ Count(user_profiles, user) >= 1
    /\ Count(user_profiles, user) = RowsOf(bug_scans, user) )
    => \A b \in Badges :
         ( \/ /\ b.requirement_type = "scan_count"
              /\ b.requirement_value <= Count(user_profiles, user)
           \/ /\ b.requirement_type = "score_threshold"
              /\ b.requirement_value <= Score(user_profiles, user) )
           => b.id \in HeldBadges(user_badges, user)

\* ------------------------------------------------------------------ C38
\* C38: while the result of an invocation is shown, that invocation has
\* written one bug_scans row of the user for the shown bug, and its
\* increment_user_score call has added the bug's points to the user's score.
C38_ResultMeansRecordAndPoints ==
  \A i \in Invocations :
    (inv[i].outcome = "success" /\ scannedBug # NoBug) =>
      /\ inv[i].bug = scannedBug
      /\ inv[i].inserts = 1
      /\ bug_scans[<<user, scannedBug>>] >= 1
      /\ "increment_user_score" \in inv[i].issued
      /\ inv[i].scoreDelta = BugOf(scannedBug).points

\* ------------------------------------------------------------------ C39
\* C39: a scanned bug is attributed to the first of: the butterfly challenge
\* when its name contains 'butterfly' in any case, the bee challenge when its
\* name contains 'bee', the rare challenge when its rarity is rare, epic or
\* legendary; a bug matching none loads no progress; and the target of the
\* payload is the target of that challenge in CHALLENGES: 30, 50, 20.
C39_OneGoalByPrecedence ==
  (calc.fn = "checkChallengeContribution" /\ calc.done) =>
    LET k == IF ilike(calc.bug.name, butterfly) THEN 1
             ELSE IF ilike(calc.bug.name, bee) THEN 2
             ELSE IF calc.bug.rarity \in {"rare", "epic", "legendary"} THEN 3
             ELSE 0
    IN IF k = 0
         THEN ~calc.result.loads /\ calc.result.challengeId = "null"
         ELSE /\ calc.result.loads
              /\ calc.result.challengeId = CHALLENGES[k].id
              /\ calc.result.target = CHALLENGES[k].target
              /\ calc.result.target = <<30, 50, 20>>[k]

\* a legendary bug whose name has both words went to the butterfly challenge
C39_Witness ==
  /\ calc.fn = "checkChallengeContribution"
  /\ calc.done
  /\ ilike(calc.bug.name, butterfly)
  /\ ilike(calc.bug.name, bee)
  /\ calc.bug.rarity = "legendary"
  /\ calc.result = [challengeId |-> "butterfly-challenge", loads |-> TRUE, target |-> 30]

====
